---- MODULE Spec2Model ----
(***************************************************************************)
(* Claims ledger of the ginja-ai backend: the claim validator              *)
(* (app/utils/claim_validator.py), create_claim (app/crud/claims/claim.py) *)
(* and the POST /claims handler (app/views/claims/claims.py), run against  *)
(* the members / providers / diagnoses / procedures / claims tables.       *)
(* Currency amounts are exact decimals; they are counted here in whole     *)
(* units of the smallest amount.                                           *)
(* The auth service (app/views/auth/verification.py,                      *)
(* app/utils/auth_helpers.py, app/crud/auth/verification.py) is modelled   *)
(* against the users and verification_tokens tables.                       *)
(***************************************************************************)
EXTENDS Integers, Sequences, FiniteSets, TLC

\* ---------------------------------------------------------------- bounds
MaxAmount == 4
MaxCost == 2
MaxClaims == 2
NumWorkers == 2
MaxTime == 2
MaxLogins == 2

\* ------------------------------------------------------ program constants
FRAUD_MULTIPLIER == 2

APPROVED == "approved"
PARTIAL == "partial"
REJECTED == "rejected"
PENDING == "pending"
ACTIVE == "active"
INACTIVE == "inactive"
SUSPENDED == "suspended"

\* ------------------------------------------------------- reference tables
\* members table (id -> status, benefit_limit, used_benefit at start)
Members ==
  [M123 |-> [status |-> ACTIVE, benefit_limit |-> 4, used_benefit |-> 0],
   M124 |-> [status |-> ACTIVE, benefit_limit |-> 3, used_benefit |-> 2],
   M125 |-> [status |-> INACTIVE, benefit_limit |-> 4, used_benefit |-> 0]]

\* providers table (id -> is_active)
Providers == [H456 |-> [is_active |-> TRUE], H458 |-> [is_active |-> FALSE]]

\* diagnoses and procedures tables (primary keys)
Diagnoses == {"D001"}
Procedures == {"P001"}

KnownMembers == DOMAIN Members
KnownProviders == DOMAIN Providers

\* identifiers a request may carry: the rows above and one unknown id each
MemberIds == KnownMembers \cup {"M999"}
ProviderIds == KnownProviders \cup {"H999"}
DiagnosisCodes == Diagnoses \cup {"D999"}
ProcedureCodes == Procedures \cup {"P999"}
Amounts == 1..MaxAmount

\* ClaimCreate: the validated request body (claim_amount > 0)
ClaimCreate ==
  [member_id : MemberIds, provider_id : ProviderIds,
   diagnosis_code : DiagnosisCodes, procedure_code : ProcedureCodes,
   claim_amount : Amounts]

Workers == 1..NumWorkers

VARIABLES
  used_benefit,   \* members.used_benefit, committed
  member_status,  \* members.status, committed reference data
  average_cost,   \* procedures.average_cost, committed reference data
  claims,         \* claims table, committed rows in insertion order
  pc,             \* per worker: position of the request it is serving
  req,            \* per worker: the ClaimCreate body being served
  sess,           \* per worker: the request's AsyncSession
  resp,           \* per worker: the HTTP response of the last request
  tokens,         \* verification_tokens table, committed rows
  now,            \* the UTC clock, in units of ten minutes
  last,           \* the last call of the auth service and its answer
  users,          \* users table, committed rows by id
  logins,         \* history: the session ids of the successful logins, in order
  validating      \* per worker: the OTP validation it is serving

ledger_vars == <<used_benefit, member_status, average_cost, claims, pc, req, sess, resp>>
auth_vars == <<tokens, now, last, users, logins, validating>>
vars == <<used_benefit, member_status, average_cost, claims, pc, req, sess, resp,
          tokens, now, last, users, logins, validating>>

\* ------------------------------------------------------------- validator
NoRaise == [raised |-> FALSE, msg |-> <<>>]
Raise(m) == [raised |-> TRUE, msg |-> m]

remaining_benefit(member_id, used) == Members[member_id].benefit_limit - used

_validate_member_exhausted_first(used, member_id) ==
  IF member_id \notin KnownMembers
    THEN Raise(<<"Member", member_id, "not found">>)
  ELSE IF remaining_benefit(member_id, used[member_id]) <= 0
    THEN Raise(<<"Member", member_id, "has exhausted benefit limit">>)
  ELSE IF member_status[member_id] # ACTIVE
    THEN Raise(<<"Member", member_id, "is not active", member_status[member_id]>>)
  ELSE NoRaise

_validate_member(used, member_id) ==
  IF member_id \notin KnownMembers
    THEN Raise(<<"Member", member_id, "not found">>)
  ELSE IF member_status[member_id] # ACTIVE
    THEN Raise(<<"Member", member_id, "is not active", member_status[member_id]>>)
  ELSE IF remaining_benefit(member_id, used[member_id]) <= 0
    THEN Raise(<<"Member", member_id, "has exhausted benefit limit">>)
  ELSE NoRaise

_validate_provider(provider_id) ==
  IF provider_id \notin KnownProviders
    THEN Raise(<<"Provider", provider_id, "not found">>)
  ELSE IF ~Providers[provider_id].is_active
    THEN Raise(<<"Provider", provider_id, "is not active">>)
  ELSE NoRaise

_validate_diagnosis(diagnosis_code) ==
  IF diagnosis_code \notin Diagnoses
    THEN Raise(<<"Diagnosis code", diagnosis_code, "not found">>)
  ELSE NoRaise

_validate_procedure(procedure_code) ==
  IF procedure_code \notin Procedures
    THEN Raise(<<"Procedure code", procedure_code, "not found">>)
  ELSE NoRaise

_check_fraud_ge(claim_amount, cost) ==
  LET threshold == cost * FRAUD_MULTIPLIER IN
  IF claim_amount >= threshold
    THEN [fraud_flag |-> TRUE,
          fraud_reason |-> <<"Claim amount", ToString(claim_amount), "exceeds",
                             ToString(FRAUD_MULTIPLIER), "x average procedure cost",
                             ToString(cost)>>]
    ELSE [fraud_flag |-> FALSE, fraud_reason |-> <<>>]

_check_fraud(claim_amount, cost) ==
  LET threshold == cost * FRAUD_MULTIPLIER IN
  IF claim_amount > threshold
    THEN [fraud_flag |-> TRUE,
          fraud_reason |-> <<"Claim amount", ToString(claim_amount), "exceeds",
                             ToString(FRAUD_MULTIPLIER), "x average procedure cost",
                             ToString(cost)>>]
    ELSE [fraud_flag |-> FALSE, fraud_reason |-> <<>>]

_determine_approval_ge(claim_amount, remaining, fraud_flag) ==
  IF fraud_flag THEN [status |-> REJECTED, approved_amount |-> 0]
  ELSE IF claim_amount >= remaining
    THEN [status |-> PARTIAL, approved_amount |-> remaining]
  ELSE [status |-> APPROVED, approved_amount |-> claim_amount]

_determine_approval_claim_amount(claim_amount, remaining, fraud_flag) ==
  IF fraud_flag THEN [status |-> REJECTED, approved_amount |-> 0]
  ELSE IF claim_amount > remaining
    THEN [status |-> PARTIAL, approved_amount |-> claim_amount]
  ELSE [status |-> APPROVED, approved_amount |-> claim_amount]

_determine_approval_fraud_above_remaining(claim_amount, remaining, fraud_flag) ==
  IF fraud_flag /\ claim_amount > remaining
    THEN [status |-> REJECTED, approved_amount |-> 0]
  ELSE IF claim_amount > remaining
    THEN [status |-> PARTIAL, approved_amount |-> remaining]
  ELSE [status |-> APPROVED, approved_amount |-> claim_amount]

_determine_approval(claim_amount, remaining, fraud_flag) ==
  IF fraud_flag THEN [status |-> REJECTED, approved_amount |-> 0]
  ELSE IF claim_amount > remaining
    THEN [status |-> PARTIAL, approved_amount |-> remaining]
  ELSE [status |-> APPROVED, approved_amount |-> claim_amount]

\* outcome of one validator run: the stages it evaluated, and either the
\* ClaimValidationError it raised or the four-tuple it returned
Failure(stages, e) ==
  [stages |-> stages, raised |-> TRUE, msg |-> e.msg, status |-> REJECTED,
   approved_amount |-> 0, fraud_flag |-> FALSE, fraud_reason |-> <<>>]

Decision(stages, d, f) ==
  [stages |-> stages, raised |-> FALSE, msg |-> <<>>, status |-> d.status,
   approved_amount |-> d.approved_amount, fraud_flag |-> f.fraud_flag,
   fraud_reason |-> f.fraud_reason]

validate_and_process_claim_diagnosis_first(used, cost, c) ==
  LET m == _validate_member(used, c.member_id)
      p == _validate_provider(c.provider_id)
      d == _validate_diagnosis(c.diagnosis_code)
      q == _validate_procedure(c.procedure_code)
  IN
  IF m.raised THEN Failure(<<"member">>, m)
  ELSE IF d.raised THEN Failure(<<"member", "diagnosis">>, d)
  ELSE IF p.raised THEN Failure(<<"member", "diagnosis", "provider">>, p)
  ELSE IF q.raised THEN Failure(<<"member", "diagnosis", "provider", "procedure">>, q)
  ELSE
    LET f == _check_fraud(c.claim_amount, cost[c.procedure_code])
        a == _determine_approval(c.claim_amount,
               remaining_benefit(c.member_id, used[c.member_id]), f.fraud_flag)
    IN Decision(<<"member", "diagnosis", "provider", "procedure", "fraud">>, a, f)

validate_and_process_claim(used, cost, c) ==
  LET m == _validate_member(used, c.member_id)
      p == _validate_provider(c.provider_id)
      d == _validate_diagnosis(c.diagnosis_code)
      q == _validate_procedure(c.procedure_code)
  IN
  IF m.raised THEN Failure(<<"member">>, m)
  ELSE IF p.raised THEN Failure(<<"member", "provider">>, p)
  ELSE IF d.raised THEN Failure(<<"member", "provider", "diagnosis">>, d)
  ELSE IF q.raised THEN Failure(<<"member", "provider", "diagnosis", "procedure">>, q)
  ELSE
    LET f == _check_fraud(c.claim_amount, cost[c.procedure_code])
        a == _determine_approval(c.claim_amount,
               remaining_benefit(c.member_id, used[c.member_id]), f.fraud_flag)
    IN Decision(<<"member", "provider", "diagnosis", "procedure", "fraud">>, a, f)

\* ------------------------------------------------------------ claim rows
\* Claim(...): a row of the claims table
Claim(c, approved_amount, status, fraud_flag, fraud_reason, processed_at) ==
  [member_id |-> c.member_id, provider_id |-> c.provider_id,
   diagnosis_code |-> c.diagnosis_code, procedure_code |-> c.procedure_code,
   claim_amount |-> c.claim_amount, approved_amount |-> approved_amount,
   status |-> status, fraud_flag |-> fraud_flag, fraud_reason |-> fraud_reason,
   processed_at |-> processed_at]

\* the row create_claim builds when the validator raised
RejectedClaim_column_defaults(c, v) ==
  Claim(c, 0, PENDING, FALSE, v.msg, "NULL")

RejectedClaim(c, v) ==
  Claim(c, 0, REJECTED, FALSE, v.msg, "utcnow")

\* the row create_claim builds from the validator's four-tuple
DecidedClaim(c, v) ==
  Claim(c, v.approved_amount, v.status, v.fraud_flag, v.fraud_reason, "utcnow")

NewClaim(c, v) == IF v.raised THEN RejectedClaim(c, v) ELSE DecidedClaim(c, v)

\* the INSERT violates a foreign key of the claims table
ForeignKeyViolation(row) ==
  \/ row.member_id \notin KnownMembers
  \/ row.provider_id \notin KnownProviders
  \/ row.diagnosis_code \notin Diagnoses
  \/ row.procedure_code \notin Procedures

\* ---------------------------------------------------------- the session
NoMember == 0 - 1
NoRequest ==
  [member_id |-> "", provider_id |-> "", diagnosis_code |-> "",
   procedure_code |-> "", claim_amount |-> 0]
NoResult == Failure(<<>>, NoRaise)
NewSession == [member_used |-> NoMember, result |-> NoResult, pending |-> <<>>]
NoResponse == [code |-> 0, detail |-> "", body |-> <<>>]

\* db.add(claim); await db.flush(): the row is written inside the open
\* transaction and is not yet part of the committed table
db_flush_commits(committed, pending, row) ==
  [claims |-> committed \o Append(pending, row), pending |-> <<>>]

db_flush(committed, pending, row) ==
  [claims |-> committed, pending |-> Append(pending, row)]

\* member.used_benefit += approved_amount, on the Member object the
\* session already holds
UpdateMember_claim_amount(used, member_used, row) ==
  IF row.status \in {APPROVED, PARTIAL} /\ row.member_id \in KnownMembers
    THEN [used EXCEPT ![row.member_id] = member_used + row.claim_amount]
    ELSE used

UpdateMember_first_member(used, member_used, row) ==
  IF row.status \in {APPROVED, PARTIAL} /\ row.member_id \in KnownMembers
    THEN [used EXCEPT !["M123"] = member_used + row.approved_amount]
    ELSE used

UpdateMember_assign(used, member_used, row) ==
  IF row.status \in {APPROVED, PARTIAL} /\ row.member_id \in KnownMembers
    THEN [used EXCEPT ![row.member_id] = row.approved_amount]
    ELSE used

UpdateMember_approved_only(used, member_used, row) ==
  IF row.status = APPROVED /\ row.member_id \in KnownMembers
    THEN [used EXCEPT ![row.member_id] = member_used + row.approved_amount]
    ELSE used

UpdateMember(used, member_used, row) ==
  IF row.status \in {APPROVED, PARTIAL} /\ row.member_id \in KnownMembers
    THEN [used EXCEPT ![row.member_id] = member_used + row.approved_amount]
    ELSE used

\* get_db: one transaction per request, committed when the handler returns
\* and rolled back when it raises
db_commit(committed, pending) == committed \o pending
db_rollback(committed, pending) == committed

InFlight == Cardinality({w \in Workers : pc[w] \in {"validated", "flushed"}})

\* ------------------------------------------------------- the auth service
\* app/views/auth/verification.py, app/utils/auth_helpers.py and
\* app/crud/auth/verification.py, run against the users and
\* verification_tokens tables

LOGIN == "login"
INITIAL_VERIFICATION == "initial_verification"
PASSWORD_RESET == "password_reset"
VerificationTypeEnum == {LOGIN, INITIAL_VERIFICATION, PASSWORD_RESET}

\* client_token_expiry=10 (minutes) of request_otp and resend_otp, in units
\* of the clock
CLIENT_TOKEN_EXPIRY == 1
\* token_type default of create_otp_for_user
DEFAULT_TOKEN_TYPE == INITIAL_VERIFICATION
\* the ttl values a caller passes to create_otp_for_user
Expiries == {CLIENT_TOKEN_EXPIRY, 2 * CLIENT_TOKEN_EXPIRY}

\* bcrypt: password -> stored hash
bcrypt == [secret1 |-> "$2b$12$secret1", wrong |-> "$2b$12$wrong"]
Passwords == DOMAIN bcrypt

\* users table (id -> email, phone_number, status, hashed_password)
Users ==
  [U1 |-> [email |-> "ann@x.io", phone_number |-> "0711", status |-> ACTIVE,
           hashed_password |-> bcrypt["secret1"]],
   U2 |-> [email |-> "bob@x.io", phone_number |-> "0722", status |-> INACTIVE,
           hashed_password |-> bcrypt["secret1"]],
   U3 |-> [email |-> "cat@x.io", phone_number |-> "0733", status |-> SUSPENDED,
           hashed_password |-> bcrypt["secret1"]]]
UserIds == DOMAIN Users
NoUser == "None"

\* usernames a request may carry: an email, the same email in another case,
\* a phone number, and an email of no account
Usernames == {"ann@x.io", "Ann@x.io", "0722", "cat@x.io", "eve@x.io"}
\* the usernames with an "@" in them
HasAt == {"ann@x.io", "Ann@x.io", "cat@x.io", "eve@x.io", "dan@x.io", "Dan@x.io"}
\* str.lower()
lower(str) ==
  IF str = "Ann@x.io" THEN "ann@x.io"
  ELSE IF str = "Dan@x.io" THEN "dan@x.io"
  ELSE str

get_user_by_email(email) ==
  LET found == {u \in DOMAIN users : users[u].email = lower(email)}
  IN IF found = {} THEN NoUser ELSE CHOOSE u \in found : TRUE

get_user_by_phone(phone_number) ==
  LET found == {u \in DOMAIN users : users[u].phone_number = phone_number}
  IN IF found = {} THEN NoUser ELSE CHOOSE u \in found : TRUE

get_user_by_phone_or_email(identifier) ==
  IF identifier \in HasAt
    THEN get_user_by_email(identifier)
    ELSE get_user_by_phone(identifier)

\* RegisterInput bodies: an email in lower or in mixed case, with or without
\* a phone number
NoPhone == ""
RegisterInput ==
  [email : {"dan@x.io", "Dan@x.io"}, phone_number : {NoPhone, "0744"},
   status : {ACTIVE, INACTIVE}, password : {"secret1"}]
\* the ids uuid4 may give to new rows
NewUserIds == {"U4", "U5"}

\* validate_email_unique / validate_phone_unique raise
EmailAlreadyExists(email) == \E u \in DOMAIN users : users[u].email = email
PhoneAlreadyExists(phone_number) ==
  \E u \in DOMAIN users : users[u].phone_number = phone_number

\* create_user: the row is stored with the email as given
create_user(id, user_in) ==
  [u \in DOMAIN users \cup {id} |->
     IF u = id
       THEN [email |-> user_in.email, phone_number |-> user_in.phone_number,
             status |-> user_in.status,
             hashed_password |-> bcrypt[user_in.password]]
       ELSE users[u]]

check_password(user, password) == users[user].hashed_password = bcrypt[password]

\* generate_otp: the codes the random generator may return
Otps == {"123456", "654321"}

\* hashlib.sha256(otp.encode()).hexdigest()
hash_otp_plaintext(otp) == otp

hash_otp(otp) ==
  IF otp = "123456"
    THEN "8d969eef6ecad3c29a3a629280e686cf0c3f5d5a86aff3ca12020c923adc6c92"
    ELSE "481f6cc0511143ccdd7e2d1b1b94faf0a700a8b49cd13922a70b5ae28acaa8c5"

verify_otp(stored_hashed_otp, submitted_otp) ==
  stored_hashed_otp = hash_otp(submitted_otp)

\* a row of verification_tokens
VerificationToken(user_id, token_type, token, expires_at, is_valid) ==
  [user_id |-> user_id, token_type |-> token_type, token |-> token,
   expires_at |-> expires_at, is_valid |-> is_valid]
NoToken == VerificationToken(NoUser, "", "", 0, FALSE)

is_expired(token, t) == t > token.expires_at

\* create_otp_for_user with otp the code generate_otp returned; the INSERT
\* fails on the unique index of verification_tokens.token
create_otp_for_user(toks, t, user, token_type, client_token_expiry, otp) ==
  LET token == VerificationToken(user, token_type, hash_otp(otp),
                                 t + client_token_expiry, TRUE)
  IN IF \E x \in toks : x.token = token.token
       THEN [raised |-> TRUE, tokens |-> toks, token |-> NoToken, otp |-> ""]
       ELSE [raised |-> FALSE, tokens |-> toks \cup {token}, token |-> token,
             otp |-> otp]

set_otp_as_used_keeps_valid(toks, t, token) ==
  (toks \ {token}) \cup {[token EXCEPT !.expires_at = t]}

\* set_otp_as_used(db, token): the UPDATE goes to the row of the object
\* held, whatever the row holds by then
set_otp_as_used(toks, t, token) ==
  {IF x.token = token.token
     THEN [token EXCEPT !.is_valid = FALSE, !.expires_at = t]
     ELSE x : x \in toks}

\* the rows the select of authenticate_user_via_otp may return first: the
\* valid LOGIN tokens of the user with the greatest expires_at
LatestLoginTokens_any_valid(toks, user) ==
  {x \in toks : x.user_id = user /\ x.token_type = LOGIN /\ x.is_valid}

LatestLoginTokens(toks, user) ==
  LET valid == {x \in toks : /\ x.user_id = user
                             /\ x.token_type = LOGIN
                             /\ x.is_valid}
  IN {x \in valid : \A y \in valid : y.expires_at <= x.expires_at}

HTTPException(status_code, detail) ==
  [raised |-> TRUE, code |-> status_code, detail |-> detail, user |-> NoUser]
Authenticated(user) ==
  [raised |-> FALSE, code |-> 200, detail |-> "", user |-> user]

authenticate_user_password_first(username, password) ==
  LET user == get_user_by_phone_or_email(username) IN
  IF user = NoUser THEN HTTPException(404, "User not found")
  ELSE IF ~check_password(user, password)
    THEN HTTPException(401, "Invalid credentials")
  ELSE IF users[user].status = INACTIVE
    THEN HTTPException(400, "User is inactive")
  ELSE IF users[user].status = SUSPENDED
    THEN HTTPException(400, "User is suspended")
  ELSE Authenticated(user)

authenticate_user(username, password) ==
  LET user == get_user_by_phone_or_email(username) IN
  IF user = NoUser THEN HTTPException(404, "User not found")
  ELSE IF users[user].status = INACTIVE
    THEN HTTPException(400, "User is inactive")
  ELSE IF users[user].status = SUSPENDED
    THEN HTTPException(400, "User is suspended")
  ELSE IF ~check_password(user, password) \/ users[user].status # ACTIVE
    THEN HTTPException(401, "Invalid credentials")
  ELSE Authenticated(user)

\* authenticate_user_via_otp with token the row its select returned first
\* (NoToken when it returned none); answers the outcome and the table
authenticate_user_via_otp(toks, t, username, otp, token) ==
  LET user == get_user_by_phone_or_email(username)
      keep(r) == [raised |-> r.raised, code |-> r.code, detail |-> r.detail,
                  user |-> r.user, tokens |-> toks]
  IN
  IF user = NoUser THEN keep(HTTPException(404, "User not found"))
  ELSE IF users[user].status = INACTIVE
    THEN keep(HTTPException(400, "User is inactive"))
  ELSE IF users[user].status = SUSPENDED
    THEN keep(HTTPException(400, "User is suspended"))
  ELSE IF token = NoToken \/ is_expired(token, t) \/ ~verify_otp(token.token, otp)
    THEN keep(HTTPException(401, "Invalid or expired OTP"))
  ELSE [raised |-> FALSE, code |-> 200, detail |-> "", user |-> user,
        tokens |-> set_otp_as_used(toks, t, token)]

\* the answers of the handlers
OtpSent == <<"message", "If the username exists, an OTP has been sent.">>
TokenPair(user) == <<"access_token", user, "refresh_token", user, "bearer">>
Detail(detail) == <<"detail", detail>>

\* ------------------------------------------------- sessions and JWTs
\* settings.ACCESS_TOKEN_EXPIRE_MINUTES = 60 and
\* settings.REFRESH_TOKEN_EXPIRE_MINUTES = 60 * 24 * 7, in clock units
ACCESS_TOKEN_EXPIRE == 6 * CLIENT_TOKEN_EXPIRY
REFRESH_TOKEN_EXPIRE == 6 * 24 * 7 * CLIENT_TOKEN_EXPIRY

\* sha1(f"{user.id}{now}").hexdigest(): a digest of the user id and of the
\* clock reading, taken as free of collisions; equal inputs give equal ids
NoSession == <<>>
get_session_id_for_user(user, t) == <<"sha1", user, ToString(t)>>

\* a JWT: its payload, and whether its signature is one made with SECRET_KEY
Jwt(user_id, exp, type, session_id, signed) ==
  [user_id |-> user_id, exp |-> exp, type |-> type, session_id |-> session_id,
   signed |-> signed]
NoJwt == Jwt("", 0, "", NoSession, FALSE)
TokenTypes == {"access", "refresh"}

create_access_token(user, session_id, t) ==
  Jwt(user, t + ACCESS_TOKEN_EXPIRE, "access", session_id, TRUE)
create_refresh_token(user, session_id, t) ==
  Jwt(user, t + REFRESH_TOKEN_EXPIRE, "refresh", session_id, TRUE)

Decoded == [raised |-> FALSE, code |-> 200, detail |-> ""]
Unauthorized(detail) == [raised |-> TRUE, code |-> 401, detail |-> detail]

decode_token_access_only(token, force_access, force_refresh, t) ==
  IF ~token.signed THEN Unauthorized("Could not validate credentials")
  ELSE IF t > token.exp THEN Unauthorized("Token has expired")
  ELSE IF token.type # "access" /\ force_access /\ ~force_refresh
    THEN Unauthorized("Invalid token type")
  ELSE Decoded

\* decode_token(token, force_access, force_refresh) at clock reading t: the
\* signature, then the expiry, then the type; the payload is the token's
decode_token(token, force_access, force_refresh, t) ==
  IF ~token.signed THEN Unauthorized("Could not validate credentials")
  ELSE IF t > token.exp THEN Unauthorized("Token has expired")
  ELSE IF \/ (token.type # "access" /\ force_access /\ ~force_refresh)
          \/ (token.type # "refresh" /\ force_refresh)
    THEN Unauthorized("Invalid token type")
  ELSE Decoded

get_user_by_id(user_id) == IF user_id \in DOMAIN users THEN user_id ELSE NoUser

\* the JWTs of a call: the one presented and the ones in the answer
Jwts(presented, minted) == [presented |-> presented, minted |-> minted]
NoJwts == Jwts(NoJwt, {})

\* the pair login_user and validate_otp mint for user at clock reading t
LoginJwts(user, t) ==
  LET session_id == get_session_id_for_user(user, t)
  IN Jwts(NoJwt, {create_access_token(user, session_id, t),
                  create_refresh_token(user, session_id, t)})

Refreshed(code, detail, minted) ==
  [code |-> code, detail |-> detail, minted |-> minted]

refresh_access_token_exists_only(token, t) ==
  LET token_data == decode_token(token, FALSE, TRUE, t)
      user == get_user_by_id(token.user_id)
  IN
  IF token_data.raised THEN Refreshed(token_data.code, token_data.detail, {})
  ELSE IF user = NoUser
    THEN Refreshed(401, "User inactive or deleted", {})
  ELSE Refreshed(200, "", {create_access_token(user, token.session_id, t)})

refresh_access_token_new_session(token, t) ==
  LET token_data == decode_token(token, FALSE, TRUE, t)
      user == get_user_by_id(token.user_id)
  IN
  IF token_data.raised THEN Refreshed(token_data.code, token_data.detail, {})
  ELSE IF user = NoUser \/ users[user].status # ACTIVE
    THEN Refreshed(401, "User inactive or deleted", {})
  ELSE Refreshed(200, "",
         {create_access_token(user, get_session_id_for_user(user, t), t)})

\* refresh_access_token(payload, db) with payload.refresh_token = token
refresh_access_token(token, t) ==
  LET token_data == decode_token(token, FALSE, TRUE, t)
      user == get_user_by_id(token.user_id)
  IN
  IF token_data.raised THEN Refreshed(token_data.code, token_data.detail, {})
  ELSE IF user = NoUser \/ users[user].status # ACTIVE
    THEN Refreshed(401, "User inactive or deleted", {})
  ELSE Refreshed(200, "", {create_access_token(user, token.session_id, t)})

AccessToken(user) == <<"access_token", user, "bearer">>

NoCall ==
  [op |-> "", username |-> "", secret |-> "", code |-> 0, body |-> <<>>,
   jwts |-> NoJwts]
Call(op, username, secret, code, body) ==
  [op |-> op, username |-> username, secret |-> secret, code |-> code,
   body |-> body, jwts |-> NoJwts]
\* a call whose request or answer carries JWTs
JwtCall(op, username, secret, code, body, jwts) ==
  [op |-> op, username |-> username, secret |-> secret, code |-> code,
   body |-> body, jwts |-> jwts]

\* a worker serving no OTP validation
NotValidating ==
  [pc |-> "idle", username |-> "", otp |-> "", token |-> NoToken, code |-> 0]

\* ------------------------------------------------------------------ Init
Init ==
  /\ used_benefit = [m \in KnownMembers |-> Members[m].used_benefit]
  /\ member_status = [m \in KnownMembers |-> Members[m].status]
  /\ average_cost \in [Procedures -> 1..MaxCost]
  /\ claims = <<>>
  /\ pc = [w \in Workers |-> "idle"]
  /\ req = [w \in Workers |-> NoRequest]
  /\ sess = [w \in Workers |-> NewSession]
  /\ resp = [w \in Workers |-> NoResponse]
  /\ tokens = {}
  /\ now = 0
  /\ last = NoCall
  /\ users = Users
  /\ logins = <<>>
  /\ validating = [w \in Workers |-> NotValidating]

\* --------------------------------------------------------------- actions
Validate_reserves(w, c) ==
  LET v == validate_and_process_claim(used_benefit, average_cost, c) IN
  /\ pc[w] = "idle"
  /\ Len(claims) + InFlight < MaxClaims
  /\ pc' = [pc EXCEPT ![w] = "validated"]
  /\ req' = [req EXCEPT ![w] = c]
  /\ sess' = [sess EXCEPT ![w] =
       [member_used |-> IF c.member_id \in KnownMembers
                          THEN used_benefit[c.member_id] ELSE NoMember,
        result |-> v,
        pending |-> <<>>]]
  /\ resp' = [resp EXCEPT ![w] = NoResponse]
  /\ used_benefit' = IF v.raised THEN used_benefit
                     ELSE [used_benefit EXCEPT ![c.member_id] = @ + v.approved_amount]
  /\ UNCHANGED <<member_status, average_cost, claims, auth_vars>>

\* submit_claim is entered with a body c; create_claim runs the validator,
\* which loads the member row into the session
Validate(w, c) ==
  /\ pc[w] = "idle"
  /\ Len(claims) + InFlight < MaxClaims
  /\ pc' = [pc EXCEPT ![w] = "validated"]
  /\ req' = [req EXCEPT ![w] = c]
  /\ sess' = [sess EXCEPT ![w] =
       [member_used |-> IF c.member_id \in KnownMembers
                          THEN used_benefit[c.member_id] ELSE NoMember,
        result |-> validate_and_process_claim(used_benefit, average_cost, c),
        pending |-> <<>>]]
  /\ resp' = [resp EXCEPT ![w] = NoResponse]
  /\ UNCHANGED <<used_benefit, member_status, average_cost, claims, auth_vars>>

\* create_claim builds the row, adds it and flushes; an IntegrityError of
\* the INSERT leaves create_claim, becomes a 500 and the transaction is
\* rolled back
Flush(w) ==
  /\ pc[w] = "validated"
  /\ LET row == NewClaim(req[w], sess[w].result) IN
     IF ForeignKeyViolation(row)
       THEN /\ pc' = [pc EXCEPT ![w] = "idle"]
            /\ claims' = db_rollback(claims, sess[w].pending)
            /\ req' = [req EXCEPT ![w] = NoRequest]
            /\ sess' = [sess EXCEPT ![w] = NewSession]
            /\ resp' = [resp EXCEPT ![w] =
                 [code |-> 500, detail |-> "IntegrityError", body |-> <<>>]]
       ELSE LET f == db_flush(claims, sess[w].pending, row) IN
            /\ pc' = [pc EXCEPT ![w] = "flushed"]
            /\ claims' = f.claims
            /\ sess' = [sess EXCEPT ![w].pending = f.pending]
            /\ UNCHANGED <<req, resp>>
  /\ UNCHANGED <<used_benefit, member_status, average_cost, auth_vars>>

\* the rest of create_claim (member update, refresh), the 201 response and
\* the commit of the request's transaction
Return(w) ==
  /\ pc[w] = "flushed"
  /\ LET row == NewClaim(req[w], sess[w].result) IN
     /\ used_benefit' = UpdateMember(used_benefit, sess[w].member_used, row)
     /\ claims' = db_commit(claims, sess[w].pending)
     /\ resp' = [resp EXCEPT ![w] = [code |-> 201, detail |-> "", body |-> <<row>>]]
  /\ pc' = [pc EXCEPT ![w] = "idle"]
  /\ req' = [req EXCEPT ![w] = NoRequest]
  /\ sess' = [sess EXCEPT ![w] = NewSession]
  /\ UNCHANGED <<member_status, average_cost, auth_vars>>

\* a database error after the flush (the member select or the refresh
\* fails): submit_claim answers 500 and the transaction is rolled back
Fail(w) ==
  /\ pc[w] = "flushed"
  /\ pc' = [pc EXCEPT ![w] = "idle"]
  /\ claims' = db_rollback(claims, sess[w].pending)
  /\ req' = [req EXCEPT ![w] = NoRequest]
  /\ sess' = [sess EXCEPT ![w] = NewSession]
  /\ resp' = [resp EXCEPT ![w] =
       [code |-> 500, detail |-> "OperationalError", body |-> <<>>]]
  /\ UNCHANGED <<used_benefit, member_status, average_cost, auth_vars>>

\* ------------------------------------------------------- specifications
\* Spec: requests are served one at a time (a single worker)
Next ==
  \/ \E c \in ClaimCreate : Validate(1, c)
  \/ Flush(1)
  \/ Return(1)
  \/ Fail(1)

Spec == Init /\ [][Next]_vars

\* SpecConc: requests that name an active provider and known codes are
\* served concurrently, interleaved at their awaits
ConcClaimCreate ==
  {c \in ClaimCreate : /\ c.provider_id = "H456"
                       /\ c.diagnosis_code \in Diagnoses
                       /\ c.procedure_code \in Procedures}

NextConc ==
  \/ \E w \in Workers : \E c \in ConcClaimCreate : Validate(w, c)
  \/ \E w \in Workers : Flush(w)
  \/ \E w \in Workers : Return(w)
  \/ \E w \in Workers : Fail(w)

SpecConc == Init /\ [][NextConc]_vars

\* SpecMember: the validator is run against a members table in any state:
\* every member in any status, with its seeded balance or with its limit
\* used up
MemberStatuses == {ACTIVE, INACTIVE, SUSPENDED}
UsedBenefits(m) == {Members[m].used_benefit, Members[m].benefit_limit}

InitMember ==
  /\ used_benefit \in
       {u \in [KnownMembers -> UNION {UsedBenefits(m) : m \in KnownMembers}] :
          \A m \in KnownMembers : u[m] \in UsedBenefits(m)}
  /\ member_status \in [KnownMembers -> MemberStatuses]
  /\ average_cost \in [Procedures -> 1..MaxCost]
  /\ claims = <<>>
  /\ pc = [w \in Workers |-> "idle"]
  /\ req = [w \in Workers |-> NoRequest]
  /\ sess = [w \in Workers |-> NewSession]
  /\ resp = [w \in Workers |-> NoResponse]
  /\ tokens = {}
  /\ now = 0
  /\ last = NoCall
  /\ users = Users
  /\ logins = <<>>
  /\ validating = [w \in Workers |-> NotValidating]

\* a second request carries the body of the first and is validated while the
\* first has not committed
Revalidate ==
  /\ pc[1] = "validated"
  /\ Validate(2, req[1])

NextMember ==
  \/ \E c \in ClaimCreate : Validate(1, c)
  \/ Revalidate

SpecMember == InitMember /\ [][NextMember]_vars

\* --------------------------------------------------- auth service actions
\* time passes
Tick ==
  /\ now < MaxTime
  /\ now' = now + 1
  /\ UNCHANGED <<tokens, last, users, logins, validating, ledger_vars>>

\* create_otp_for_user(db, user, token_type, client_token_expiry): the row
\* is committed and (token, otp) returned, or the INSERT raises
Issue(user, token_type, client_token_expiry) ==
  /\ \E otp \in Otps :
       LET r == create_otp_for_user(tokens, now, user, token_type,
                                    client_token_expiry, otp)
       IN /\ tokens' = r.tokens
          /\ last' = IF r.raised
               THEN Call("create_otp_for_user", user, "", 500, <<"IntegrityError">>)
               ELSE Call("create_otp_for_user", user, r.otp, 0,
                         <<token_type, ToString(client_token_expiry)>>)
  /\ UNCHANGED <<now, users, logins, validating, ledger_vars>>

\* the body shared by request_otp and resend_otp
SendOtp(op, username) ==
  /\ LET user == get_user_by_phone_or_email(username) IN
     IF user = NoUser
       THEN /\ tokens' = tokens
            /\ last' = Call(op, username, "", 200, OtpSent)
       ELSE \E otp \in Otps :
              LET r == create_otp_for_user(tokens, now, user, DEFAULT_TOKEN_TYPE,
                                           CLIENT_TOKEN_EXPIRY, otp)
              IN /\ tokens' = r.tokens
                 /\ last' = IF r.raised
                      THEN Call(op, username, "", 500, <<"IntegrityError">>)
                      ELSE Call(op, username, "", 200, OtpSent)
  /\ UNCHANGED <<now, users, logins, validating, ledger_vars>>

\* POST /auth/verify/request
RequestOtp(username) == SendOtp("request_otp", username)

\* POST /auth/verify/resend
ResendOtp(username) == SendOtp("resend_otp", username)

\* validate_otp(payload, db)
validate_otp(username, otp) ==
  /\ LET user == get_user_by_phone_or_email(username)
         latest == IF user = NoUser THEN {} ELSE LatestLoginTokens(tokens, user)
     IN \E token \in (IF latest = {} THEN {NoToken} ELSE latest) :
          LET r == authenticate_user_via_otp(tokens, now, username, otp, token)
          IN /\ tokens' = r.tokens
             /\ last' = IF r.raised
                  THEN Call("validate_otp", username, otp, r.code,
                            Detail(r.detail))
                  ELSE JwtCall("validate_otp", username, otp, r.code,
                               TokenPair(r.user), LoginJwts(r.user, now))
  /\ UNCHANGED <<now, users, validating, ledger_vars>>

\* POST /auth/verify/validate
ValidateOtp(username, otp) == validate_otp(username, otp) /\ UNCHANGED logins

\* login_user(payload, db)
login_user(username, password) ==
  /\ LET r == authenticate_user(username, password)
     IN last' = IF r.raised
          THEN Call("login_user", username, password, r.code, Detail(r.detail))
          ELSE JwtCall("login_user", username, password, r.code,
                       TokenPair(r.user), LoginJwts(r.user, now))
  /\ UNCHANGED <<tokens, now, users, validating, ledger_vars>>

\* POST /auth/login
LoginUser(username, password) == login_user(username, password) /\ UNCHANGED logins

\* a successful login adds its session id to the history
LogLogin ==
  IF last'.code = 200
    THEN /\ Len(logins) < MaxLogins
         /\ logins' = Append(logins,
                             (CHOOSE jwt \in last'.jwts.minted : TRUE).session_id)
    ELSE logins' = logins

\* POST /auth/login and POST /auth/verify/validate, their logins recorded
PasswordLogin(username, password) == login_user(username, password) /\ LogLogin
OtpLogin(username, otp) == validate_otp(username, otp) /\ LogLogin

\* the JWTs a client may present: the ones of the last answer, and for an
\* active and an inactive user the tokens minted for a login at an earlier
\* clock reading or long enough ago to be expired, and a refresh token
\* signed with another key
MintTimes == {-(REFRESH_TOKEN_EXPIRE + 1)} \cup 0..now
PresentedJwts ==
  last.jwts.minted \cup
  {IF type = "access"
     THEN create_access_token(user, get_session_id_for_user(user, t), t)
     ELSE create_refresh_token(user, get_session_id_for_user(user, t), t) :
     user \in {"U1", "U2"}, t \in MintTimes, type \in TokenTypes} \cup
  {[create_refresh_token("U1", get_session_id_for_user("U1", 0), 0)
      EXCEPT !.signed = FALSE]}

\* POST /auth/refresh
RefreshToken(token) ==
  /\ LET r == refresh_access_token(token, now)
     IN last' = JwtCall("refresh_access_token", "", "", r.code,
                        IF r.code = 200 THEN AccessToken(token.user_id)
                                        ELSE Detail(r.detail),
                        Jwts(token, r.minted))
  /\ UNCHANGED <<tokens, now, users, logins, validating, ledger_vars>>

\* get_current_user_id(token), the dependency of the authenticated routes
GetCurrentUserId(token) ==
  /\ LET payload == decode_token(token, TRUE, FALSE, now)
     IN last' = JwtCall("get_current_user_id", "", "", payload.code,
                        IF payload.raised THEN Detail(payload.detail)
                                          ELSE <<token.user_id>>,
                        Jwts(token, {}))
  /\ UNCHANGED <<tokens, now, users, logins, validating, ledger_vars>>

\* DELETE /users/{user_id}: the row goes, and its verification tokens with it
RemoveUser(user_id) ==
  /\ IF user_id \in DOMAIN users
       THEN /\ users' = [u \in DOMAIN users \ {user_id} |-> users[u]]
            /\ tokens' = {token \in tokens : token.user_id # user_id}
            /\ last' = Call("remove_user", user_id, "", 204, <<>>)
       ELSE /\ UNCHANGED <<users, tokens>>
            /\ last' = Call("remove_user", user_id, "", 404,
                            Detail("User not found"))
  /\ UNCHANGED <<now, logins, validating, ledger_vars>>

\* POST /users
RegisterUser(user_in) ==
  /\ IF EmailAlreadyExists(user_in.email)
       THEN /\ users' = users
            /\ last' = Call("register_user", user_in.email, "", 400,
                            Detail("Email {email} is already registered"))
     ELSE IF user_in.phone_number # NoPhone
             /\ PhoneAlreadyExists(user_in.phone_number)
       THEN /\ users' = users
            /\ last' = Call("register_user", user_in.email, "", 400,
                            Detail("Phone Number {phone_number} already exists"))
     ELSE \E id \in NewUserIds \ DOMAIN users :
            /\ users' = create_user(id, user_in)
            /\ last' = Call("register_user", user_in.email, "", 201, <<id>>)
  /\ UNCHANGED <<tokens, now, logins, validating, ledger_vars>>

\* get_user_by_phone_or_email(db, identifier), as every auth handler calls it
LookupUser(identifier) ==
  /\ last' = Call("get_user_by_phone_or_email", identifier, "", 0,
                  <<get_user_by_phone_or_email(identifier)>>)
  /\ UNCHANGED <<tokens, now, users, logins, validating, ledger_vars>>

\* SpecUsers: accounts are registered and looked up by the identifiers they
\* were registered with, one call at a time
NextUsers ==
  \/ \E user_in \in RegisterInput : RegisterUser(user_in)
  \/ \E identifier \in Usernames \cup {"dan@x.io", "Dan@x.io", "0744"} :
       LookupUser(identifier)

SpecUsers == Init /\ [][NextUsers]_vars

\* the ledger plays no part: one table of procedure costs
InitSession == Init /\ average_cost = [p \in Procedures |-> 1]

\* SpecSession: logins by password and by a first OTP, refreshes,
\* authenticated calls and the removal of the active account, one call at a
\* time
NextSession ==
  \/ Tick
  \/ tokens = {} /\ Issue("U1", LOGIN, CLIENT_TOKEN_EXPIRY)
  \/ \E otp \in Otps : OtpLogin("ann@x.io", otp)
  \/ \E username \in Usernames : \E password \in Passwords :
       PasswordLogin(username, password)
  \/ \E token \in PresentedJwts : RefreshToken(token)
  \/ \E token \in PresentedJwts : GetCurrentUserId(token)
  \/ RemoveUser("U1")

SpecSession == InitSession /\ [][NextSession]_vars

\* validate_otp up to the return of the select of
\* authenticate_user_via_otp: the worker holds the row the select gave it
SelectOtp(w, username, otp) ==
  /\ validating[w].pc # "selected"
  /\ LET user == get_user_by_phone_or_email(username)
         latest == IF user = NoUser THEN {} ELSE LatestLoginTokens(tokens, user)
     IN \E token \in (IF latest = {} THEN {NoToken} ELSE latest) :
          validating' = [validating EXCEPT ![w] =
            [pc |-> "selected", username |-> username, otp |-> otp,
             token |-> token, code |-> 0]]
  /\ UNCHANGED <<tokens, now, last, users, logins, ledger_vars>>

\* validate_otp from there on: the checks on the row held, set_otp_as_used
\* and its commit, the JWTs and the answer
ConsumeOtp(w) ==
  /\ validating[w].pc = "selected"
  /\ LET v == validating[w]
         r == authenticate_user_via_otp(tokens, now, v.username, v.otp, v.token)
     IN /\ tokens' = r.tokens
        /\ validating' = [validating EXCEPT ![w].pc = "done", ![w].code = r.code]
        /\ last' = IF r.raised
             THEN Call("validate_otp", v.username, v.otp, r.code, Detail(r.detail))
             ELSE JwtCall("validate_otp", v.username, v.otp, r.code,
                          TokenPair(r.user), LoginJwts(r.user, now))
  /\ UNCHANGED <<now, users, logins, ledger_vars>>

\* SpecOtpConc: the workers serve OTP validations for an active and for an
\* inactive user at the same time, with tokens issued and the clock running
NextOtpConc ==
  \/ Tick
  \/ Issue("U1", LOGIN, CLIENT_TOKEN_EXPIRY)
  \/ \E w \in Workers : \E username \in {"ann@x.io", "0722"} : \E otp \in Otps :
       SelectOtp(w, username, otp)
  \/ \E w \in Workers : ConsumeOtp(w)

SpecOtpConc == InitSession /\ [][NextOtpConc]_vars

\* SpecHttp: the auth endpoints, called one at a time
NextHttp ==
  \/ Tick
  \/ \E username \in Usernames : RequestOtp(username)
  \/ \E username \in Usernames : ResendOtp(username)
  \/ \E username \in Usernames : \E otp \in Otps : ValidateOtp(username, otp)
  \/ \E username \in Usernames : \E password \in Passwords :
       LoginUser(username, password)

SpecHttp == Init /\ [][NextHttp]_vars

\* SpecAuth: create_otp_for_user called for an active and for an inactive
\* user, with the LOGIN purpose and with the default one, and the OTP login
\* endpoint, one call at a time
NextAuth ==
  \/ Tick
  \/ \E user \in {"U1", "U2"} : \E token_type \in {LOGIN, DEFAULT_TOKEN_TYPE} :
       \E client_token_expiry \in Expiries :
         Issue(user, token_type, client_token_expiry)
  \/ \E username \in Usernames : \E otp \in Otps : ValidateOtp(username, otp)

SpecAuth == Init /\ [][NextAuth]_vars

\* ---------------------------------------------------------------- claims

\* C1: when a submit adjudicated APPROVED or PARTIAL returns, the member's
\* used_benefit is its value before the call plus the claim's
\* approved_amount, and no other amount.
C1_UsedBenefitGrowsByApprovedAmount ==
  [][\A w \in Workers :
       (/\ pc[w] = "flushed"
        /\ pc'[w] = "idle"
        /\ resp'[w].code = 201
        /\ resp'[w].body[1].status \in {APPROVED, PARTIAL})
       => used_benefit'[req[w].member_id] =
            used_benefit[req[w].member_id] + resp'[w].body[1].approved_amount]_vars

\* a PARTIAL claim (approved_amount below claim_amount) has been returned and
\* the member's balance stands at its start value plus the approved amount
C1_Witness ==
  \E w \in Workers :
    /\ resp[w].code = 201
    /\ resp[w].body[1].status = PARTIAL
    /\ resp[w].body[1].approved_amount < resp[w].body[1].claim_amount
    /\ used_benefit[resp[w].body[1].member_id] =
         Members[resp[w].body[1].member_id].used_benefit
           + resp[w].body[1].approved_amount

C3_FraudIffAboveTwiceAverage ==
  \A w \in Workers :
    (pc[w] # "idle" /\ ~sess[w].result.raised) =>
      LET a == req[w].claim_amount
          c == average_cost[req[w].procedure_code]
          v == sess[w].result
      IN /\ v.fraud_flag <=> (a > 2 * c)
         /\ (v.fraud_reason # <<>>) <=> v.fraud_flag

\* a claim of exactly twice the average cost went through unflagged
C3_Witness ==
  \E w \in Workers :
    /\ pc[w] # "idle"
    /\ ~sess[w].result.raised
    /\ req[w].claim_amount = 2 * average_cost[req[w].procedure_code]
    /\ ~sess[w].result.fraud_flag
    /\ sess[w].result.fraud_reason = <<>>

\* C4: the stages run in the order member, provider, diagnosis, procedure,
\* fraud; the run stops at the first stage that fails, the failure raised is
\* that stage's, and a run stopped by a lookup stage never carries
\* fraud_flag = TRUE, neither in its outcome nor in the claim row built from it.
C4_StagesShortCircuitInOrder ==
  \A w \in Workers :
    pc[w] # "idle" =>
      LET c == req[w]
          v == sess[w].result
          Order == <<"member", "provider", "diagnosis", "procedure", "fraud">>
          Subject == [member |-> "Member", provider |-> "Provider",
                      diagnosis |-> "Diagnosis code",
                      procedure |-> "Procedure code", fraud |-> ""]
          fails ==
            [member |-> \/ c.member_id \notin KnownMembers
                        \/ Members[c.member_id].status # ACTIVE
                        \/ Members[c.member_id].benefit_limit
                             - sess[w].member_used <= 0,
             provider |-> \/ c.provider_id \notin KnownProviders
                          \/ ~Providers[c.provider_id].is_active,
             diagnosis |-> c.diagnosis_code \notin Diagnoses,
             procedure |-> c.procedure_code \notin Procedures,
             fraud |-> FALSE]
          n == Len(v.stages)
      IN /\ n \in 1..5
         /\ v.stages = SubSeq(Order, 1, n)
         /\ \A i \in 1..(n - 1) : ~fails[Order[i]]
         /\ v.raised <=> fails[Order[n]]
         /\ ~v.raised => n = 5
         /\ v.raised => (v.msg[1] = Subject[Order[n]] /\ ~v.fraud_flag)
         /\ (v.raised /\ sess[w].pending # <<>>) => ~sess[w].pending[1].fraud_flag

\* a request with an inactive provider, an unknown diagnosis code and an
\* amount above the fraud threshold stopped at the provider stage
C4_Witness ==
  \E w \in Workers :
    /\ pc[w] = "validated"
    /\ req[w].provider_id = "H458"
    /\ req[w].diagnosis_code = "D999"
    /\ req[w].procedure_code \in Procedures
    /\ req[w].claim_amount > 2 * average_cost[req[w].procedure_code]
    /\ sess[w].result.stages = <<"member", "provider">>
    /\ sess[w].result.msg = <<"Provider", "H458", "is not active">>

\* C5: whenever the validator raised, submit answers 201 with a claim that is
\* REJECTED, approved_amount 0, fraud_flag FALSE, fraud_reason the failure
\* message, and that claim is stored; it never raises to the caller.
C5_ValidationFailureStoredAsRejected ==
  [][\A w \in Workers :
       (/\ pc[w] # "idle"
        /\ pc'[w] = "idle"
        /\ sess[w].result.raised
        /\ resp'[w].detail # "OperationalError")
       => /\ resp'[w].code = 201
          /\ resp'[w].body[1].status = REJECTED
          /\ resp'[w].body[1].approved_amount = 0
          /\ ~resp'[w].body[1].fraud_flag
          /\ resp'[w].body[1].fraud_reason = sess[w].result.msg
          /\ claims' = Append(claims, resp'[w].body[1])]_vars

\* C6: once all concurrent submits have finished, every member's used_benefit
\* is its start value plus the approved_amount of all claims stored for it.
C6_NoLostBenefitIncrement ==
  (\A w \in Workers : pc[w] = "idle") =>
    \A m \in KnownMembers :
      LET sum[i \in 0..Len(claims)] ==
            IF i = 0 THEN 0
            ELSE sum[i - 1] + (IF claims[i].member_id = m
                                 THEN claims[i].approved_amount ELSE 0)
      IN used_benefit[m] = Members[m].used_benefit + sum[Len(claims)]

\* C7: the committed tables change together: a member's used_benefit changes
\* only in the step that stores an APPROVED or PARTIAL claim of that member,
\* by its approved_amount, and every step that stores such a claim makes that
\* change; no other step touches either table.
C7_ClaimAndIncrementAtomic ==
  [][/\ \A m \in KnownMembers :
          used_benefit'[m] # used_benefit[m] =>
            /\ Len(claims') = Len(claims) + 1
            /\ claims'[Len(claims')].member_id = m
            /\ claims'[Len(claims')].status \in {APPROVED, PARTIAL}
     /\ claims' # claims =>
          /\ Len(claims') = Len(claims) + 1
          /\ SubSeq(claims', 1, Len(claims)) = claims
          /\ claims'[Len(claims')].status \in {APPROVED, PARTIAL} =>
               used_benefit'[claims'[Len(claims')].member_id] =
                 used_benefit[claims'[Len(claims')].member_id]
                   + claims'[Len(claims')].approved_amount]_vars

\* an APPROVED or PARTIAL claim has been flushed inside the open transaction;
\* the committed tables hold neither the row nor the increment
C7_Witness ==
  \E w \in Workers :
    /\ pc[w] = "flushed"
    /\ sess[w].pending # <<>>
    /\ sess[w].pending[1].status \in {APPROVED, PARTIAL}
    /\ claims = <<>>
    /\ \A m \in KnownMembers : used_benefit[m] = Members[m].used_benefit

\* C8: a submit whose outcome is REJECTED changes no member's used_benefit,
\* and any step changes the used_benefit of at most one member, the one named
\* by the submit that takes the step.
C8_OnlyNamedMemberChanges ==
  [][/\ Cardinality({m \in KnownMembers : used_benefit'[m] # used_benefit[m]}) <= 1
     /\ \A m \in KnownMembers :
          used_benefit'[m] # used_benefit[m] =>
            \E w \in Workers : /\ pc[w] = "flushed"
                               /\ pc'[w] = "idle"
                               /\ req[w].member_id = m
                               /\ sess[w].pending[1].status # REJECTED
     /\ \A w \in Workers :
          (/\ pc[w] = "flushed"
           /\ pc'[w] = "idle"
           /\ sess[w].pending[1].status = REJECTED)
            => used_benefit' = used_benefit]_vars

\* a fraud-rejected claim and then a paying claim of M124 are stored; M123 and
\* M125 stand at their start values and M124 moved by the approved amount
C8_Witness ==
  /\ Len(claims) = 2
  /\ claims[1].status = REJECTED
  /\ claims[1].fraud_flag
  /\ claims[2].member_id = "M124"
  /\ claims[2].status \in {APPROVED, PARTIAL}
  /\ used_benefit["M123"] = Members["M123"].used_benefit
  /\ used_benefit["M125"] = Members["M125"].used_benefit
  /\ used_benefit["M124"] = Members["M124"].used_benefit + claims[2].approved_amount

\* C9: every call to submit that the database lets finish adds exactly one
\* row to the claims table, and no other step adds or removes a row.
C9_ExactlyOneClaimPerSubmit ==
  [][IF \E w \in Workers : /\ pc[w] # "idle"
                           /\ pc'[w] = "idle"
                           /\ resp'[w].detail # "OperationalError"
       THEN Len(claims') = Len(claims) + 1
       ELSE claims' = claims]_vars

\* C10: every row of the claims table, committed or flushed in an open
\* transaction, has status APPROVED, PARTIAL or REJECTED (never PENDING) and a
\* processed_at timestamp.
C10_NoPendingClaimStored ==
  /\ \A i \in 1..Len(claims) :
       /\ claims[i].status \in {APPROVED, PARTIAL, REJECTED}
       /\ claims[i].processed_at # "NULL"
  /\ \A w \in Workers : \A i \in 1..Len(sess[w].pending) :
       /\ sess[w].pending[i].status \in {APPROVED, PARTIAL, REJECTED}
       /\ sess[w].pending[i].processed_at # "NULL"

\* a claim rejected by a validation failure and a claim decided by the
\* validator are both stored
C10_Witness ==
  /\ \E i \in 1..Len(claims) :
       /\ claims[i].status = REJECTED
       /\ ~claims[i].fraud_flag
       /\ claims[i].fraud_reason # <<>>
       /\ claims[i].processed_at = "utcnow"
  /\ \E i \in 1..Len(claims) : claims[i].status = APPROVED

\* C11: across any sequence of submits served one after another, every
\* member's used_benefit is never negative and no step lowers it.
C11_UsedBenefitMonotone ==
  [][\A m \in KnownMembers :
       /\ used_benefit[m] >= 0
       /\ used_benefit'[m] >= 0
       /\ used_benefit'[m] >= used_benefit[m]]_vars

\* two paying claims of the same member are stored one after the other and
\* the member's balance stands above its start value
C11_Witness ==
  /\ Len(claims) = 2
  /\ claims[1].member_id = claims[2].member_id
  /\ claims[1].status \in {APPROVED, PARTIAL}
  /\ claims[2].status \in {APPROVED, PARTIAL}
  /\ claims[1].approved_amount > 0
  /\ claims[2].approved_amount > 0
  /\ used_benefit[claims[1].member_id] >=
       Members[claims[1].member_id].used_benefit + 2

\* C12: the member stage passes exactly when the member exists, is ACTIVE
\* and has limit - used > 0; otherwise it fails with 'not found' for an
\* unknown id, else 'not active' for an INACTIVE or SUSPENDED member, else
\* 'exhausted' for an ACTIVE member with nothing remaining.
C12_MemberStageEligibility ==
  \A w \in Workers :
    pc[w] = "validated" =>
      LET m == req[w].member_id
          v == sess[w].result
          known == m \in KnownMembers
          failed == v.raised /\ v.stages = <<"member">>
      IN /\ ~failed <=> (/\ known
                         /\ member_status[m] = ACTIVE
                         /\ Members[m].benefit_limit - used_benefit[m] > 0)
         /\ ~known => v.msg = <<"Member", m, "not found">>
         /\ (known /\ member_status[m] \in {INACTIVE, SUSPENDED}) =>
              v.msg = <<"Member", m, "is not active", member_status[m]>>
         /\ (known /\ member_status[m] = ACTIVE
                   /\ Members[m].benefit_limit - used_benefit[m] <= 0) =>
              v.msg = <<"Member", m, "has exhausted benefit limit">>

\* a SUSPENDED member with nothing remaining was answered 'not active'
C12_Witness ==
  \E w \in Workers :
    /\ pc[w] = "validated"
    /\ req[w].member_id \in KnownMembers
    /\ member_status[req[w].member_id] = SUSPENDED
    /\ used_benefit[req[w].member_id] = Members[req[w].member_id].benefit_limit
    /\ sess[w].result.stages = <<"member">>
    /\ sess[w].result.msg =
         <<"Member", req[w].member_id, "is not active", SUSPENDED>>

\* C13: a validator run changes no member, claim or reference record, and a
\* second run on the same inputs, made before anything is committed, yields
\* the outcome of the first (the same decision or the same failure).
C13_ValidationIdempotent ==
  [][/\ \A w \in Workers :
          (pc[w] = "idle" /\ pc'[w] = "validated") =>
            /\ used_benefit' = used_benefit
            /\ member_status' = member_status
            /\ average_cost' = average_cost
            /\ claims' = claims
     /\ \A w1, w2 \in Workers :
          (/\ pc'[w1] = "validated"
           /\ pc'[w2] = "validated"
           /\ req'[w1] = req'[w2])
          => sess'[w1].result = sess'[w2].result]_vars

\* the same body was validated twice with nothing committed in between and
\* both runs decided PARTIAL for the same amount
C13_Witness ==
  /\ pc[1] = "validated"
  /\ pc[2] = "validated"
  /\ req[1] = req[2]
  /\ claims = <<>>
  /\ sess[1].result.status = PARTIAL
  /\ sess[2].result.status = PARTIAL
  /\ sess[1].result.approved_amount = sess[2].result.approved_amount
  /\ sess[1].result.approved_amount > 0

\* C14: a successful OTP authentication consumes the token it matched
\* (is_valid FALSE, expires_at the time of the call), and an OTP
\* authentication with a code whose token of that user is already consumed
\* is refused and changes nothing.
C14_OtpReplayPrevented ==
  [][(last'.op = "validate_otp" /\ now' = now) =>
       LET user == get_user_by_phone_or_email(last'.username)
           spent == {t \in tokens : /\ t.user_id = user
                                    /\ t.token = hash_otp(last'.secret)
                                    /\ ~t.is_valid}
       IN /\ last'.code = 200 =>
               \E t \in tokens :
                 /\ t.user_id = user
                 /\ t.token = hash_otp(last'.secret)
                 /\ t.is_valid
                 /\ tokens' = (tokens \ {t}) \cup
                      {VerificationToken(t.user_id, t.token_type, t.token, now, FALSE)}
          /\ spent # {} =>
               /\ last'.code # 200
               /\ tokens' = tokens]_vars

\* the code of a consumed LOGIN token of the active user was submitted again
\* and answered 401
C14_Witness ==
  /\ last.op = "validate_otp"
  /\ last.code = 401
  /\ get_user_by_phone_or_email(last.username) = "U1"
  /\ \E t \in tokens : /\ t.user_id = "U1"
                       /\ t.token_type = LOGIN
                       /\ t.token = hash_otp(last.secret)
                       /\ ~t.is_valid
                       /\ t.expires_at <= now

\* C15: OTP authentication of an existing ACTIVE user is answered 200 only
\* if a valid LOGIN token of the user with the latest expires_at is unexpired
\* and stores the digest of the submitted code; when no such token exists,
\* it is expired or its digest differs, the answer is 401 'Invalid or expired
\* OTP', also when an older valid token of the user matches the code.
C15_OnlyLatestLoginTokenCounts ==
  [][(/\ last'.op = "validate_otp"
      /\ now' = now
      /\ get_user_by_phone_or_email(last'.username) \in UserIds
      /\ Users[get_user_by_phone_or_email(last'.username)].status = ACTIVE) =>
       LET user == get_user_by_phone_or_email(last'.username)
           valid == {t \in tokens : /\ t.user_id = user
                                    /\ t.token_type = LOGIN
                                    /\ t.is_valid}
           latest == {t \in valid : \A y \in valid : y.expires_at <= t.expires_at}
           good == {t \in latest : /\ ~(now > t.expires_at)
                                   /\ t.token = hash_otp(last'.secret)}
       IN /\ last'.code \in {200, 401}
          /\ last'.code = 200 => good # {}
          /\ good = {} =>
               /\ last'.code = 401
               /\ last'.body = Detail("Invalid or expired OTP")
               /\ tokens' = tokens]_vars

\* the code of an older LOGIN token of the active user, still valid and
\* unexpired, was answered 401 because a token with a later expiry exists
C15_Witness ==
  /\ last.op = "validate_otp"
  /\ last.code = 401
  /\ get_user_by_phone_or_email(last.username) = "U1"
  /\ \E t, y \in tokens :
       /\ t.user_id = "U1" /\ t.token_type = LOGIN /\ t.is_valid
       /\ y.user_id = "U1" /\ y.token_type = LOGIN /\ y.is_valid
       /\ t.token = hash_otp(last.secret)
       /\ now <= t.expires_at
       /\ t.expires_at < y.expires_at

\* C16: when an existing ACTIVE user has requested an OTP through
\* /auth/verify/request or /auth/verify/resend and submits the code of the
\* token issued last to /auth/verify/validate with the same username before
\* the token expires, the answer is 200 with an access/refresh token pair.
C16_OtpLoginRoundTrip ==
  [][(/\ last'.op = "validate_otp"
      /\ now' = now
      /\ get_user_by_phone_or_email(last'.username) \in UserIds
      /\ Users[get_user_by_phone_or_email(last'.username)].status = ACTIVE
      /\ \E t \in tokens :
           /\ t.user_id = get_user_by_phone_or_email(last'.username)
           /\ t.is_valid
           /\ t.token = hash_otp(last'.secret)
           /\ now <= t.expires_at
           /\ \A y \in tokens \ {t} :
                y.user_id = t.user_id => y.expires_at < t.expires_at)
     => /\ last'.code = 200
        /\ last'.body = TokenPair(get_user_by_phone_or_email(last'.username))]_vars

\* C17: after any sequence of request, resend and validate calls, every
\* (user, purpose) pair has at most one token with is_valid TRUE.
C17_OneValidTokenPerUserAndPurpose ==
  \A user \in UserIds : \A token_type \in VerificationTypeEnum :
    Cardinality({t \in tokens : /\ t.user_id = user
                                /\ t.token_type = token_type
                                /\ t.is_valid}) <= 1

\* C18: a create_otp_for_user call that returns adds exactly one token, with
\* is_valid TRUE and expires_at = now + ttl, for the user and purpose given;
\* the stored value is the digest of the returned plaintext code and not the
\* plaintext, and verify_otp(stored, q) holds for the returned code and for
\* no other code.
C18_IssueStoresDigest ==
  [][(/\ last'.op = "create_otp_for_user"
      /\ now' = now
      /\ last'.code = 0) =>
       \E t \in tokens' :
         /\ t \notin tokens
         /\ tokens' = tokens \cup {t}
         /\ t.is_valid
         /\ t.user_id = last'.username
         /\ t.token_type = last'.body[1]
         /\ \E ttl \in Expiries : /\ ToString(ttl) = last'.body[2]
                                  /\ t.expires_at = now + ttl
         /\ t.token = hash_otp(last'.secret)
         /\ t.token # last'.secret
         /\ t.token \notin Otps
         /\ \A q \in Otps : verify_otp(t.token, q) <=> q = last'.secret]_vars

\* a LOGIN token was issued for twice the endpoint's ttl; its stored value
\* verifies against the returned code
C18_Witness ==
  /\ last.op = "create_otp_for_user"
  /\ last.code = 0
  /\ last.body = <<LOGIN, ToString(2 * CLIENT_TOKEN_EXPIRY)>>
  /\ \E t \in tokens :
       /\ t.user_id = last.username
       /\ t.token_type = LOGIN
       /\ t.is_valid
       /\ t.expires_at = now + 2 * CLIENT_TOKEN_EXPIRY
       /\ verify_otp(t.token, last.secret)
       /\ t.token # last.secret

\* C19: every call of /auth/verify/request and /auth/verify/resend is
\* answered 200 with the same message, whether or not the username matches
\* an account, and a call whose username matches no account creates and
\* changes no token.
C19_OtpRequestHidesAccounts ==
  [][(last'.op \in {"request_otp", "resend_otp"} /\ now' = now) =>
       /\ last'.code = 200
       /\ last'.body = OtpSent
       /\ get_user_by_phone_or_email(last'.username) = NoUser =>
            tokens' = tokens]_vars

\* C20: a password login is answered 404 for an unknown identifier; else 400
\* 'User is inactive' for an INACTIVE and 400 'User is suspended' for a
\* SUSPENDED account, whatever the password; else 401 'Invalid credentials'
\* for a wrong password; the user is authenticated exactly when the account
\* is ACTIVE and the password verifies.
C20_PasswordLoginCheckOrder ==
  last.op = "login_user" =>
    LET user == get_user_by_phone_or_email(last.username)
        verifies == /\ user # NoUser
                    /\ Users[user].hashed_password = bcrypt[last.secret]
    IN /\ user = NoUser =>
            (last.code = 404 /\ last.body = Detail("User not found"))
       /\ (user # NoUser /\ Users[user].status = INACTIVE) =>
            (last.code = 400 /\ last.body = Detail("User is inactive"))
       /\ (user # NoUser /\ Users[user].status = SUSPENDED) =>
            (last.code = 400 /\ last.body = Detail("User is suspended"))
       /\ (user # NoUser /\ Users[user].status = ACTIVE /\ ~verifies) =>
            (last.code = 401 /\ last.body = Detail("Invalid credentials"))
       /\ last.code = 200 <=>
            (user # NoUser /\ Users[user].status = ACTIVE /\ verifies)
       /\ last.code = 200 => last.body = TokenPair(user)

\* a login to a suspended account with a wrong password was answered
\* 'User is suspended'
C20_Witness ==
  /\ last.op = "login_user"
  /\ get_user_by_phone_or_email(last.username) = "U3"
  /\ Users["U3"].hashed_password # bcrypt[last.secret]
  /\ last.code = 400
  /\ last.body = Detail("User is suspended")

\* C25: with submits served one at a time, for every member the current
\* used_benefit minus the initial one equals the sum of approved_amount over
\* the stored claims of that member.
C25_LedgerConsistency ==
  \A m \in KnownMembers :
    LET approved[i \in 0..Len(claims)] ==
          IF i = 0 THEN 0
          ELSE approved[i - 1] + (IF claims[i].member_id = m
                                    THEN claims[i].approved_amount ELSE 0)
    IN used_benefit[m] - Members[m].used_benefit = approved[Len(claims)]

\* an APPROVED and then a PARTIAL claim of one member are stored and its
\* balance moved by the sum of the two approved amounts
C25_Witness ==
  /\ Len(claims) = 2
  /\ claims[1].member_id = claims[2].member_id
  /\ claims[1].status = APPROVED
  /\ claims[2].status = PARTIAL
  /\ used_benefit[claims[1].member_id] =
       Members[claims[1].member_id].used_benefit
         + claims[1].approved_amount + claims[2].approved_amount

\* C26: starting with every member at used_benefit <= benefit_limit, after
\* any sequence of submits served one at a time every member still has
\* used_benefit <= benefit_limit.
C26_BenefitCap ==
  \A m \in KnownMembers : Members[m].benefit_limit - used_benefit[m] >= 0

\* a PARTIAL claim above the remaining benefit is stored and its member
\* stands exactly at the limit
C26_Witness ==
  \E i \in 1..Len(claims) :
    /\ claims[i].status = PARTIAL
    /\ claims[i].claim_amount > claims[i].approved_amount
    /\ used_benefit[claims[i].member_id] =
         Members[claims[i].member_id].benefit_limit

\* C27: right after a PARTIAL claim is stored its member's remaining benefit
\* is 0, and every later submit for that member which the database lets
\* finish is stored as REJECTED with the 'exhausted benefit limit' reason and
\* fraud_flag FALSE and leaves used_benefit unchanged.
C27_ExhaustionAbsorbing ==
  [][/\ (/\ Len(claims') = Len(claims) + 1
         /\ claims'[Len(claims')].status = PARTIAL)
        => Members[claims'[Len(claims')].member_id].benefit_limit
             - used_benefit'[claims'[Len(claims')].member_id] = 0
     /\ \A w \in Workers :
          (/\ pc[w] # "idle"
           /\ pc'[w] = "idle"
           /\ resp'[w].detail # "OperationalError"
           /\ \E i \in 1..Len(claims) : /\ claims[i].member_id = req[w].member_id
                                        /\ claims[i].status = PARTIAL)
          => /\ resp'[w].code = 201
             /\ resp'[w].body[1].status = REJECTED
             /\ resp'[w].body[1].fraud_reason =
                  <<"Member", req[w].member_id, "has exhausted benefit limit">>
             /\ ~resp'[w].body[1].fraud_flag
             /\ claims' = Append(claims, resp'[w].body[1])
             /\ used_benefit' = used_benefit]_vars

C30_LookupFindsRegisteredUser ==
  [][last'.op = "get_user_by_phone_or_email" =>
       \A u \in DOMAIN users \ UserIds :
         (\/ last'.username = users[u].email
          \/ (users[u].phone_number # NoPhone
              /\ last'.username = users[u].phone_number))
         => last'.body = <<u>>]_vars

\* C21: a refresh call answers 401 and mints nothing whenever the user its
\* token names is missing from the users table or is not ACTIVE at the time
\* of the call; a refresh call that succeeds answers with an access token
\* only, never with a refresh token.
C21_RefreshNeedsActiveUser ==
  last.op = "refresh_access_token" =>
    LET user == get_user_by_id(last.jwts.presented.user_id)
        inactive == IF user = NoUser THEN TRUE ELSE users[user].status # ACTIVE
    IN /\ inactive => (last.code = 401 /\ last.jwts.minted = {})
       /\ last.code = 200 =>
            /\ last.body = AccessToken(user)
            /\ \A jwt \in last.jwts.minted : jwt.type = "access"

\* a refresh token minted by a recorded login, well signed and unexpired, was
\* presented after its user had been removed, and the call answered 401
C21_Witness ==
  /\ last.op = "refresh_access_token"
  /\ last.jwts.presented.type = "refresh"
  /\ last.jwts.presented.signed
  /\ last.jwts.presented.exp >= now
  /\ \E i \in DOMAIN logins : logins[i] = last.jwts.presented.session_id
  /\ last.jwts.presented.user_id \notin DOMAIN users
  /\ last.code = 401
  /\ last.body = Detail("User inactive or deleted")

\* C22: the access and the refresh token a successful login mints carry one
\* session_id, and the access token a successful refresh mints carries the
\* session_id of the refresh token presented, so every refresh from a login's
\* refresh token keeps that login's session_id.
C22_SessionIdStable ==
  /\ (last.op \in {"login_user", "validate_otp"} /\ last.code = 200) =>
       \E access \in last.jwts.minted : \E refresh \in last.jwts.minted :
         /\ last.jwts.minted = {access, refresh}
         /\ access.type = "access"
         /\ refresh.type = "refresh"
         /\ access.session_id = refresh.session_id
  /\ (last.op = "refresh_access_token" /\ last.code = 200) =>
       /\ last.jwts.minted # {}
       /\ \A jwt \in last.jwts.minted :
            jwt.session_id = last.jwts.presented.session_id

\* a refresh succeeded with the refresh token of a recorded login, at a clock
\* reading later than the login's
C22_Witness ==
  /\ last.op = "refresh_access_token"
  /\ last.code = 200
  /\ \E i \in DOMAIN logins : logins[i] = last.jwts.presented.session_id
  /\ last.jwts.presented.session_id #
       get_session_id_for_user(last.jwts.presented.user_id, now)

\* C23: any two distinct successful logins have different session ids.
C23_SessionIdsUnique ==
  \A i \in DOMAIN logins : \A j \in DOMAIN logins :
    i # j => logins[i] # logins[j]

\* C24: a refresh call presented with a token whose type is not 'refresh',
\* and an authenticated call presented with a token whose type is not
\* 'access', answer 401 and yield nothing: no access token is minted from an
\* access token, and no user id is read from a refresh token.
C24_DecodeEnforcesType ==
  /\ (last.op = "refresh_access_token" /\ last.jwts.presented.type # "refresh")
       => (last.code = 401 /\ last.jwts.minted = {})
  /\ (last.op = "get_current_user_id" /\ last.jwts.presented.type # "access")
       => (last.code = 401 /\ last.body[1] = "detail")

\* the access token of an active user, well signed and unexpired, was
\* presented to refresh and turned down for its type
C24_Witness ==
  /\ last.op = "refresh_access_token"
  /\ last.jwts.presented.type = "access"
  /\ last.jwts.presented.signed
  /\ last.jwts.presented.exp >= now
  /\ last.jwts.presented.user_id \in DOMAIN users
  /\ users[last.jwts.presented.user_id].status = ACTIVE
  /\ last.code = 401
  /\ last.body = Detail("Invalid token type")

\* C29: no two OTP validations served at the same time both succeed on one
\* verification token.
C29_OneLoginPerToken ==
  \A w1 \in Workers : \A w2 \in Workers :
    (/\ w1 # w2
     /\ validating[w1].pc = "done"
     /\ validating[w2].pc = "done"
     /\ validating[w1].code = 200
     /\ validating[w2].code = 200)
    => validating[w1].token.token # validating[w2].token.token

====
